---- MODULE Spec2Model ----
(***************************************************************************)
(* A model of hbt's entity store (core/src/collection.rs), of the entity   *)
(* merge it relies on (core/src/entity.rs) and of the markdown structural  *)
(* parser that fills the store (core/src/markdown.rs).                     *)
(*                                                                         *)
(* Conventions.  An Option<T> is the set {} (None) or {x} (Some(x)).  An   *)
(* Id is the natural number the code wraps (0-based); the entity of id i   *)
(* is nodes[i + 1].  A HashMap / BTreeMap is a function on its key set.    *)
(***************************************************************************)
EXTENDS Integers, Sequences, FiniteSets, TLC

VARIABLES
    coll,     \* the Collection: [nodes, edges, urls]
    status,   \* "ok", or how the run ended: "err:<kind>" (Err returned), "panic"
    hist,     \* history: the last (at most two) store operations, newest last
    ops,      \* number of store operations / parser events so far
    seen,     \* history: per URL, the times of every observation given to the store
    state,    \* markdown ParserState
    doc       \* markdown: the nesting of the document read so far

vars == <<coll, status, hist, ops, seen, state, doc>>

(***************************************************************************)
(* Bounds and input domains                                                *)
(***************************************************************************)
MaxOps == 4

Urls == {"u1", "u2"}
Times == {1, 2, 3}
Names == {"n1", "n2"}
Labels == {"a", "b", "x"}

None == {}
Some(x) == {x}
Unwrap(o) == CHOOSE x \in o : TRUE

Range(s) == {s[i] : i \in 1..Len(s)}
Count(s, x) == Cardinality({i \in 1..Len(s) : s[i] = x})

(***************************************************************************)
(* entity.rs                                                               *)
(***************************************************************************)

Flag_merge_And(self, other) ==
    IF self = None THEN other
    ELSE IF other = None THEN self
    ELSE Some(Unwrap(self) /\ Unwrap(other))

\* Flag::merge: None is the identity, otherwise logical or.
Flag_merge(self, other) ==
    IF self = None /\ other = None THEN None
    ELSE IF other = None THEN self
    ELSE IF self = None THEN other
    ELSE Some(Unwrap(self) \/ Unwrap(other))

LastVisitedAt_merge_Incoming(self, other) ==
    IF other = None THEN self ELSE other

\* LastVisitedAt::merge: keeps the most recent time.
LastVisitedAt_merge(self, other) ==
    IF self = None /\ other = None THEN None
    ELSE IF other = None THEN self
    ELSE IF self = None THEN other
    ELSE Some(IF Unwrap(self) >= Unwrap(other) THEN Unwrap(self) ELSE Unwrap(other))

\* Entity::new: everything but url, created_at, names and labels is default.
Entity_new(url, created_at, maybe_name, labels) ==
    [url |-> url,
     created_at |-> created_at,
     updated_at |-> <<>>,
     names |-> maybe_name,
     labels |-> labels,
     shared |-> None,
     to_read |-> None,
     is_feed |-> None,
     extended |-> <<>>,
     last_visited_at |-> None]

\* Vec::sort on times: ascending, stable.
RECURSIVE InsertSorted(_, _)
InsertSorted(s, x) ==
    IF s = <<>> THEN <<x>>
    ELSE IF s[Len(s)] <= x THEN Append(s, x)
    ELSE Append(InsertSorted(SubSeq(s, 1, Len(s) - 1), x), s[Len(s)])

RECURSIVE sort(_)
sort(s) ==
    IF s = <<>> THEN <<>>
    ELSE InsertSorted(sort(SubSeq(s, 1, Len(s) - 1)), s[Len(s)])

\* A plausible slip: the incoming time is always appended, created_at kept.
Entity_update_NoMin(self, updated_at, names, labels) ==
    [self EXCEPT !.updated_at = sort(Append(self.updated_at, updated_at)),
                 !.names = self.names \cup names,
                 !.labels = self.labels \cup labels]

\* A plausible slip: the second branch pushes the stored time, like the first.
Entity_update_PushOwn(self, updated_at, names, labels) ==
    LET pushed == Append(self.updated_at, self.created_at)
    IN [self EXCEPT !.created_at = IF updated_at < self.created_at
                                   THEN updated_at ELSE self.created_at,
                    !.updated_at = sort(pushed),
                    !.names = self.names \cup names,
                    !.labels = self.labels \cup labels]

\* Entity::update
Entity_update(self, updated_at, names, labels) ==
    LET pushed == IF updated_at < self.created_at
                  THEN Append(self.updated_at, self.created_at)
                  ELSE Append(self.updated_at, updated_at)
    IN [self EXCEPT !.created_at = IF updated_at < self.created_at
                                   THEN updated_at ELSE self.created_at,
                    !.updated_at = sort(pushed),
                    !.names = self.names \cup names,
                    !.labels = self.labels \cup labels]

\* A plausible slip: the stored flags are overwritten by the incoming ones.
Entity_merge_Overwrite(self, other) ==
    LET u == Entity_update(self, other.created_at, other.names, other.labels)
    IN [u EXCEPT !.shared = other.shared,
                 !.to_read = other.to_read,
                 !.is_feed = other.is_feed,
                 !.last_visited_at = LastVisitedAt_merge(self.last_visited_at,
                                                         other.last_visited_at)]

\* A plausible slip: the incoming long-form text replaces the stored one.
Entity_merge_TakeExtended(self, other) ==
    LET u == Entity_update(self, other.created_at, other.names, other.labels)
    IN [u EXCEPT !.shared = Flag_merge(self.shared, other.shared),
                 !.to_read = Flag_merge(self.to_read, other.to_read),
                 !.is_feed = Flag_merge(self.is_feed, other.is_feed),
                 !.last_visited_at = LastVisitedAt_merge(self.last_visited_at,
                                                         other.last_visited_at),
                 !.extended = other.extended]

\* Entity::merge: other's updated_at and extended are not read.
Entity_merge(self, other) ==
    LET u == Entity_update(self, other.created_at, other.names, other.labels)
    IN [u EXCEPT !.shared = Flag_merge(self.shared, other.shared),
                 !.to_read = Flag_merge(self.to_read, other.to_read),
                 !.is_feed = Flag_merge(self.is_feed, other.is_feed),
                 !.last_visited_at = LastVisitedAt_merge(self.last_visited_at,
                                                         other.last_visited_at)]

(***************************************************************************)
(* collection.rs                                                           *)
(***************************************************************************)

\* Collection::new
Collection_new == [nodes |-> <<>>, edges |-> <<>>, urls |-> <<>>]

\* Collection::len (its assertion is the subject of a claim below)
len(c) == Len(c.nodes)

\* Collection::contains
contains(c, url) == url \in DOMAIN c.urls

\* Collection::id
id(c, url) == IF url \in DOMAIN c.urls THEN Some(c.urls[url]) ELSE None

\* Collection::entity / Collection::edges
entity(c, i) == c.nodes[i + 1]
edges(c, i) == c.edges[i + 1]

\* HashMap::insert: adds the key or overwrites its value.
MapInsert(m, k, v) == [x \in DOMAIN m \cup {k} |-> IF x = k THEN v ELSE m[x]]

\* A plausible slip: the adjacency slot is not pushed.
insert_NoEdgeSlot(c, e) ==
    [coll |-> [nodes |-> Append(c.nodes, e),
               edges |-> c.edges,
               urls |-> MapInsert(c.urls, e.url, len(c))],
     id |-> len(c)]

\* A plausible slip: the id is taken after the push.
insert_IdAfterPush(c, e) ==
    [coll |-> [nodes |-> Append(c.nodes, e),
               edges |-> Append(c.edges, <<>>),
               urls |-> MapInsert(c.urls, e.url, len(c) + 1)],
     id |-> len(c) + 1]

\* Collection::insert: returns the new store and the id.
insert(c, e) ==
    [coll |-> [nodes |-> Append(c.nodes, e),
               edges |-> Append(c.edges, <<>>),
               urls |-> MapInsert(c.urls, e.url, len(c))],
     id |-> len(c)]

\* A plausible slip: upsert never looks the URL up.
upsert_AlwaysInsert(c, other) == insert(c, other)

\* Collection::upsert
upsert(c, other) ==
    IF id(c, other.url) # None
    THEN LET i == Unwrap(id(c, other.url))
         IN [coll |-> [c EXCEPT !.nodes[i + 1] = Entity_merge(c.nodes[i + 1], other)],
             id |-> i]
    ELSE insert(c, other)

\* A plausible slip: no membership test before the push.
add_edge_NoCheck(c, from, to) ==
    [c EXCEPT !.edges[from + 1] = Append(c.edges[from + 1], to)]

\* A plausible slip: the new target goes to the front of the list.
add_edge_Front(c, from, to) ==
    IF \E k \in 1..Len(c.edges[from + 1]) : c.edges[from + 1][k] = to
    THEN c
    ELSE [c EXCEPT !.edges[from + 1] = <<to>> \o c.edges[from + 1]]

\* Collection::add_edge
add_edge(c, from, to) ==
    IF to \in Range(c.edges[from + 1])
    THEN c
    ELSE [c EXCEPT !.edges[from + 1] = Append(c.edges[from + 1], to)]

\* A plausible slip: the edge is added in one direction only.
add_edges_OneWay(c, from, to) == add_edge(c, from, to)

\* Collection::add_edges
add_edges(c, from, to) == add_edge(add_edge(c, from, to), to, from)

update_labels_Twice(c, mapping) ==
    LET relabel(labels) ==
            (labels \ DOMAIN mapping)
                \cup {mapping[l] : l \in labels \cap DOMAIN mapping}
    IN [c EXCEPT !.nodes = [i \in 1..Len(c.nodes) |->
           [c.nodes[i] EXCEPT !.labels = relabel(relabel(c.nodes[i].labels))]]]

\* Collection::update_labels
update_labels(c, mapping) ==
    LET relabel(labels) ==
            LET to_add == {mapping[l] : l \in labels \cap DOMAIN mapping}
            IN (labels \ DOMAIN mapping) \cup to_add
    IN [c EXCEPT !.nodes = [i \in 1..Len(c.nodes) |->
                               [c.nodes[i] EXCEPT !.labels = relabel(c.nodes[i].labels)]]]


(***************************************************************************)
(* The versioned envelope (collection.rs, SerializedCollection)            *)
(***************************************************************************)

\* Version::EXPECTED, and the versions an envelope read from a file may carry.
EXPECTED == <<0, 1, 0>>
Versions == {<<0, 1, 0>>, <<0, 1, 5>>, <<0, 2, 0>>, <<0, 0, 9>>, <<1, 1, 0>>}

matches_requirement_SameMajor(v) == v[1] = 0

\* Version::matches_requirement against EXPECTED_REQ = "^0.1.0":
\* >= 0.1.0 and < 0.2.0.
matches_requirement(v) == v[1] = 0 /\ v[2] = 1 /\ v[3] >= 0

\* From<&Collection> for SerializedCollection
Serialized(c) ==
    [version |-> EXPECTED,
     length |-> len(c),
     value |-> [i \in 1..len(c) |->
                   [id |-> i - 1, entity |-> entity(c, i - 1), edges |-> edges(c, i - 1)]]]

\* value.sort(): SerializedNode orders by id first.  Nodes of equal id are
\* left in their order: they fail the id assertion of the replay either way.
RECURSIVE InsertById(_, _)
InsertById(s, x) ==
    IF s = <<>> THEN <<x>>
    ELSE IF s[Len(s)].id <= x.id THEN Append(s, x)
    ELSE Append(InsertById(SubSeq(s, 1, Len(s) - 1), x), s[Len(s)])

RECURSIVE sort_nodes(_)
sort_nodes(s) ==
    IF s = <<>> THEN <<>>
    ELSE InsertById(sort_nodes(SubSeq(s, 1, Len(s) - 1)), s[Len(s)])

\* The replay loop of try_from: assert_eq!(id.0, ret.len()) then three pushes.
RECURSIVE replay(_, _)
replay(ret, value) ==
    IF value = <<>> THEN [status |-> "ok", coll |-> ret]
    ELSE LET n == Head(value)
         IN IF n.id # len(ret)
            THEN [status |-> "panic", coll |-> ret]
            ELSE replay([nodes |-> Append(ret.nodes, n.entity),
                         edges |-> Append(ret.edges, n.edges),
                         urls |-> MapInsert(ret.urls, n.entity.url, n.id)],
                        Tail(value))

try_from_AsGiven(sc) ==
    IF ~matches_requirement(sc.version)
    THEN [status |-> "err:IncompatibleVersion", coll |-> Collection_new]
    ELSE replay(Collection_new, sc.value)

\* TryFrom<SerializedCollection> for Collection
try_from(sc) ==
    IF ~matches_requirement(sc.version)
    THEN [status |-> "err:IncompatibleVersion", coll |-> Collection_new]
    ELSE replay(Collection_new, sort_nodes(sc.value))

\* The envelopes a store can be read back from: its serialized form with the
\* node array in any order, possibly with one node lost, under any version.
Arrangements(n) ==
    {p \in UNION {[1..m -> 1..n] : m \in {n, n - 1} \cap Nat} :
        \A i, j \in DOMAIN p : i # j => p[i] # p[j]}

Envelopes(c) ==
    LET sc == Serialized(c)
    IN {[version |-> v, length |-> sc.length,
         value |-> [i \in DOMAIN p |-> sc.value[p[i]]]] :
           v \in Versions, p \in Arrangements(sc.length)}

(***************************************************************************)
(* The store as a state machine: one action per public operation           *)
(***************************************************************************)

\* What the history keeps of one operation: its name, its entity argument, its
\* id arguments, the id it returned, and the store it was applied to.
Op(name, e, ids, ret, pre) ==
    [op |-> name, e |-> e, ids |-> ids, ret |-> ret, pre |-> pre]

Push(h, rec) == IF Len(h) < 2 THEN Append(h, rec) ELSE <<h[2], rec>>

\* Observations as the markdown parser builds them (Entity::new) ...
MdObs ==
    {Entity_new(u, t, Some(nl[1]), nl[2]) :
        u \in Urls, t \in Times, nl \in {<<"n1", {"a"}>>, <<"n2", {"b"}>>}}

\* ... and as the HTML parser builds them (Entity::from_attrs): add_date,
\* last_modified, the flag attributes and last_visit are all optional.
HtmlProfiles ==
    {[name |-> Some("n1"), labels |-> {"x"},
      shared |-> Some(TRUE), to_read |-> Some(FALSE), is_feed |-> None, lv |-> Some(2)],
     [name |-> Some("n2"), labels |-> {"a", "x"},
      shared |-> Some(FALSE), to_read |-> Some(TRUE), is_feed |-> Some(FALSE), lv |-> Some(3)],
     [name |-> None, labels |-> {},
      shared |-> Some(FALSE), to_read |-> None, is_feed |-> Some(TRUE), lv |-> None]}

HtmlObs ==
    {[Entity_new(u, 2, p.name, p.labels) EXCEPT
          !.updated_at = <<3>>,
          !.shared = p.shared, !.to_read = p.to_read, !.is_feed = p.is_feed,
          !.last_visited_at = p.lv] :
        u \in Urls, p \in HtmlProfiles}

ObsMerge == MdObs \cup HtmlObs

\* The entities the store operations are exercised with.
ObsStore ==
    {Entity_new(u, 1, None, l) : u \in Urls, l \in {{"a", "b"}, {"b"}}}
    \cup {[Entity_new("u1", 2, Some("n1"), {"b"}) EXCEPT !.extended = <<"d1">>]}

\* The label migrations update_labels is exercised with.
Mappings ==
    {<<>>, [l \in {"a"} |-> "x"], [l \in {"a", "b"} |-> "x"],
     [l \in {"a", "b"} |-> IF l = "a" THEN "b" ELSE "x"]}

Ids(c) == 0..(len(c) - 1)

Observe(e) == [seen EXCEPT ![e.url] = @ \cup {e.created_at} \cup Range(e.updated_at)]

MdIdle == UNCHANGED <<state, doc>>

Insert(e) ==
    /\ status = "ok" /\ ops < MaxOps
    /\ LET r == insert(coll, e)
       IN /\ coll' = r.coll
          /\ hist' = Push(hist, Op("insert", <<e>>, <<>>, <<r.id>>, coll))
    /\ seen' = Observe(e)
    /\ ops' = ops + 1
    /\ UNCHANGED status /\ MdIdle

Upsert(e) ==
    /\ status = "ok" /\ ops < MaxOps
    /\ LET r == upsert(coll, e)
       IN /\ coll' = r.coll
          /\ hist' = Push(hist, Op("upsert", <<e>>, <<>>, <<r.id>>, coll))
    /\ seen' = Observe(e)
    /\ ops' = ops + 1
    /\ UNCHANGED status /\ MdIdle

AddEdge(from, to) ==
    /\ status = "ok" /\ ops < MaxOps
    /\ coll' = add_edge(coll, from, to)
    /\ hist' = Push(hist, Op("add_edge", <<>>, <<from, to>>, <<>>, coll))
    /\ ops' = ops + 1
    /\ UNCHANGED <<status, seen>> /\ MdIdle

AddEdges(from, to) ==
    /\ status = "ok" /\ ops < MaxOps
    /\ coll' = add_edges(coll, from, to)
    /\ hist' = Push(hist, Op("add_edges", <<>>, <<from, to>>, <<>>, coll))
    /\ ops' = ops + 1
    /\ UNCHANGED <<status, seen>> /\ MdIdle

UpdateLabels(mapping) ==
    /\ status = "ok" /\ ops < MaxOps
    /\ coll' = update_labels(coll, mapping)
    /\ hist' = Push(hist, Op("update_labels", <<>>, <<>>, <<>>, coll))
    /\ ops' = ops + 1
    /\ UNCHANGED <<status, seen>> /\ MdIdle

\* Deserialize: the store is replaced by the one read back; on an error or a
\* failed assertion there is no store and the run is over.
Reconstruct(sc) ==
    /\ status = "ok" /\ ops < MaxOps
    /\ LET r == try_from(sc)
       IN /\ status' = r.status
          /\ coll' = IF r.status = "ok" THEN r.coll ELSE coll
    /\ hist' = Push(hist, Op("reconstruct", <<>>, <<>>, <<>>, coll))
    /\ ops' = ops + 1
    /\ UNCHANGED seen /\ MdIdle

(***************************************************************************)
(* The Markdown reader (core/src/markdown.rs): one action per event of the *)
(* tokenizer, over the event streams of well-nested documents              *)
(***************************************************************************)
MaxDepth == 3    \* lists are nested at most this deep
MaxFlat == 1     \* ... and this deep where every kind of event is mixed
MaxLinks == 2    \* links in one document
MaxParts == 1    \* text events inside one link
MaxHeadingParts == 2  \* text events inside one heading

DateTexts == {"December 5, 2023", "December 6, 2023", "Foo"}
LabelTexts == {"a", "b"}
NameTexts == {"n1"}
Dests == {"https://foo.com", "https://foo.com/", "https://bar.com/", "foo"}
HeadingLevels == 1..3
LinkTypes == {"Inline", "Autolink", "Reference"}

\* parse_date: "%B %-d, %Y" at midnight UTC, or an error (None).
parse_date(s) ==
    CASE s = "December 5, 2023" -> Some(1)
      [] s = "December 6, 2023" -> Some(2)
      [] OTHER -> None

\* Url::parse: the normalised URL (an empty path becomes "/"), or an error.
Url_parse(dest) ==
    CASE dest \in {"https://foo.com", "https://foo.com/"} -> Some("u1")
      [] dest = "https://bar.com/" -> Some("u2")
      [] OTHER -> None

RECURSIVE join(_)
join(parts) == IF parts = <<>> THEN "" ELSE Head(parts) \o join(Tail(parts))

truncate(s, n) == IF Len(s) <= n THEN s ELSE SubSeq(s, 1, n)

ParserState_new ==
    [name |-> None, name_parts |-> <<>>, date |-> None, url |-> None,
     labels |-> <<>>, current_tag |-> None, current_heading_level |-> 1,
     maybe_parent |-> None, parents |-> <<>>]

\* A plausible slip: the label stack survives the section boundary.
reset_KeepLabels(st) ==
    [st EXCEPT !.name = None, !.name_parts = <<>>, !.date = None,
               !.url = None, !.current_heading_level = 1,
               !.maybe_parent = None, !.parents = <<>>]

reset(st) ==
    [st EXCEPT !.name = None, !.name_parts = <<>>, !.date = None,
               !.url = None, !.labels = <<>>, !.current_heading_level = 1,
               !.maybe_parent = None, !.parents = <<>>]

\* A plausible slip: a link without a section date is skipped, not an error.
save_entity_SkipUndated(st, c) ==
    IF st.url = None
    THEN [status |-> "err:MissingUrl", state |-> st, coll |-> c, id |-> None]
    ELSE [status |-> "ok", state |-> [st EXCEPT !.url = None], coll |-> c,
          id |-> None]

\* A plausible slip: a link without a captured URL is skipped, not an error.
save_entity_SkipNoUrl(st, c) ==
    IF st.url = None \/ st.date = None
    THEN [status |-> IF st.url = None THEN "ok" ELSE "err:MissingDate",
          state |-> [st EXCEPT !.url = None], coll |-> c, id |-> None]
    ELSE LET r == upsert(c, Entity_new(Unwrap(st.url), Unwrap(st.date), None,
                                       Range(st.labels)))
         IN [status |-> "ok",
             state |-> [st EXCEPT !.url = None, !.name_parts = <<>>,
                                  !.maybe_parent = Some(r.id)],
             coll |-> r.coll, id |-> Some(r.id)]

\* A plausible slip: without a parent on the stack, the bookmark saved last
\* is taken for the parent.
save_entity_LinkToPrevious(st, c) ==
    IF st.url = None \/ st.date = None
    THEN [status |-> IF st.url = None THEN "err:MissingUrl" ELSE "err:MissingDate",
          state |-> [st EXCEPT !.url = None], coll |-> c, id |-> None]
    ELSE LET name == IF st.name_parts = <<>> THEN st.name
                     ELSE Some(join(st.name_parts))
             r == upsert(c, Entity_new(Unwrap(st.url), Unwrap(st.date), name,
                                       Range(st.labels)))
             linked == IF st.parents # <<>>
                       THEN add_edges(r.coll, st.parents[Len(st.parents)], r.id)
                       ELSE IF st.maybe_parent # None
                       THEN add_edges(r.coll, Unwrap(st.maybe_parent), r.id)
                       ELSE r.coll
         IN [status |-> "ok",
             state |-> [st EXCEPT !.url = None, !.name_parts = <<>>,
                                  !.maybe_parent = Some(r.id)],
             coll |-> linked, id |-> Some(r.id)]

\* save_entity: [status, state, coll, id]; id is the id the link was stored
\* under (None on an error).
save_entity(st, c) ==
    IF st.url = None
    THEN [status |-> "err:MissingUrl", state |-> st, coll |-> c, id |-> None]
    ELSE IF st.date = None
    THEN [status |-> "err:MissingDate", state |-> [st EXCEPT !.url = None],
          coll |-> c, id |-> None]
    ELSE LET name == IF st.name_parts = <<>> THEN st.name
                     ELSE Some(join(st.name_parts))
             labels == Range(st.labels)
             e == Entity_new(Unwrap(st.url), Unwrap(st.date), name, labels)
             r == upsert(c, e)
             linked == IF st.parents # <<>>
                       THEN add_edges(r.coll, st.parents[Len(st.parents)], r.id)
                       ELSE r.coll
         IN [status |-> "ok",
             state |-> [st EXCEPT !.url = None,
                                  !.name = IF st.name_parts = <<>> THEN None ELSE @,
                                  !.name_parts = <<>>,
                                  !.maybe_parent = Some(r.id)],
             coll |-> linked, id |-> Some(r.id)]

\* Start of a list: the entity saved last, if any, becomes the parent.
start_list(st) ==
    [st EXCEPT !.current_tag = Some("List"),
               !.parents = IF st.maybe_parent = None THEN @
                           ELSE Append(@, Unwrap(st.maybe_parent))]

\* End of a list: always pops.
end_list(st) ==
    [st EXCEPT !.parents = IF @ = <<>> THEN @ ELSE SubSeq(@, 1, Len(@) - 1),
               !.maybe_parent = None]

\* The Text arm: [status, state].
on_text(st, text) ==
    IF st.current_tag = Some("Heading") /\ st.current_heading_level = 1
    THEN IF parse_date(text) = None
         THEN [status |-> "err:ParseDate", state |-> st]
         ELSE [status |-> "ok", state |-> [st EXCEPT !.date = parse_date(text)]]
    ELSE IF st.current_tag = Some("Heading")
    THEN [status |-> "ok", state |-> [st EXCEPT !.labels = Append(@, text)]]
    ELSE IF st.current_tag = Some("Link:Inline")
    THEN [status |-> "ok", state |-> [st EXCEPT !.name_parts = Append(@, text)]]
    ELSE [status |-> "ok", state |-> st]

\* The Code arm; the text is put back between its backticks (written ' here).
on_code(st, text) ==
    IF st.current_tag = Some("Link:Inline")
    THEN [st EXCEPT !.name_parts = Append(@, "'" \o text \o "'")]
    ELSE st

\* The document read so far: the open elements, innermost last.  A list
\* remembers the entity of the link of the item it is nested under (link);
\* an item remembers the entity of its own link, once that link has closed.
\* nested collects <<P, child>> for every link that closed in an item of a
\* list nested under the item whose link produced P.  n counts the text
\* events inside a heading or a link; sub tells whether a list has had an
\* item and an item a sub-list (a list has at least one item).  A heading
\* also remembers its level, the label stack and the candidate parent it
\* started with, and its texts; a list the parent stack it started with.
Frame(kind, link) == [kind |-> kind, link |-> link, n |-> 0, sub |-> FALSE]
ListFrame(link, parents) ==
    [kind |-> "list", link |-> link, n |-> 0, sub |-> FALSE, parents |-> parents]
HeadingFrame(level, before) ==
    [kind |-> "heading", link |-> None, n |-> 0, sub |-> FALSE,
     level |-> level, before |-> before, texts |-> <<>>]
Top == doc.open[Len(doc.open)]
TopKind == IF doc.open = <<>> THEN "document" ELSE Top.kind
Pop(open) == SubSeq(open, 1, Len(open) - 1)
Depth(open) == Cardinality({i \in 1..Len(open) : open[i].kind = "list"})
StoreIdle == UNCHANGED <<hist, ops, seen>>

StartHeading(level) ==
    /\ status = "ok" /\ doc.open = <<>>
    /\ state' = IF level = 1
                THEN [reset(state) EXCEPT !.current_tag = Some("Heading")]
                ELSE [state EXCEPT !.current_tag = Some("Heading"),
                                   !.current_heading_level = level,
                                   !.labels = truncate(@, level - 2)]
    /\ doc' = [doc EXCEPT !.open = Append(@, HeadingFrame(level,
                  [labels |-> state.labels, maybe_parent |-> state.maybe_parent]))]
    /\ UNCHANGED <<coll, status>> /\ StoreIdle

StartList ==
    /\ status = "ok"
    /\ TopKind \in {"document", "item"}
    /\ Depth(doc.open) < MaxDepth
    /\ state' = start_list(state)
    /\ doc' = [doc EXCEPT !.open = Append(@, ListFrame(
                              IF doc.open = <<>> THEN None ELSE Top.link,
                              state.parents))]
    /\ UNCHANGED <<coll, status>> /\ StoreIdle

\* The catch-all Start arm, here the start of a list item.
StartItem ==
    /\ status = "ok" /\ doc.open # <<>> /\ Top.kind = "list"
    /\ state' = [state EXCEPT !.current_tag = Some("Item")]
    /\ doc' = [doc EXCEPT !.open = Append(@, Frame("item", None))]
    /\ UNCHANGED <<coll, status>> /\ StoreIdle

\* The catch-all Start arm again: a paragraph between the lists.
StartParagraph ==
    /\ status = "ok" /\ doc.open = <<>>
    /\ state' = [state EXCEPT !.current_tag = Some("Paragraph")]
    /\ doc' = [doc EXCEPT !.open = Append(@, Frame("paragraph", None))]
    /\ UNCHANGED <<coll, status>> /\ StoreIdle

\* An item or a paragraph has at most one link, an item before its sub-lists.
StartLink(link_type, dest_url) ==
    /\ status = "ok" /\ TopKind \in {"item", "paragraph"}
    /\ Top.link = None /\ ~Top.sub /\ doc.links < MaxLinks
    /\ LET tagged == [state EXCEPT !.current_tag = Some("Link:" \o link_type)]
           url == Url_parse(dest_url)
       IN IF link_type \in {"Inline", "Autolink"}
          THEN /\ status' = IF url = None THEN "err:ParseUrl" ELSE "ok"
               /\ state' = [tagged EXCEPT !.name = IF link_type = "Autolink"
                                                   THEN None ELSE @,
                                          !.name_parts = <<>>,
                                          !.url = IF url = None THEN @ ELSE url]
          ELSE /\ status' = status
               /\ state' = tagged
    /\ doc' = [doc EXCEPT !.open = Append(@, Frame("link", None)),
                          !.links = @ + 1]
    /\ UNCHANGED coll /\ StoreIdle

Text(text) ==
    /\ status = "ok" /\ doc.open # <<>>
    /\ \/ /\ Top.kind \in {"item", "paragraph"} /\ text = "plain"
          /\ Len(on_text(state, text).state.name_parts) <= MaxParts
       \/ /\ Top.kind = "heading" /\ Top.n < MaxHeadingParts
          /\ text \in (IF state.current_heading_level = 1 THEN DateTexts
                       ELSE LabelTexts)
       \/ Top.kind = "link" /\ Top.n < MaxParts /\ text \in NameTexts
    /\ LET r == on_text(state, text)
       IN status' = r.status /\ state' = r.state
    /\ doc' = [doc EXCEPT !.open[Len(doc.open)] =
                  CASE Top.kind \in {"item", "paragraph"} -> @
                    [] Top.kind = "heading" ->
                         [@ EXCEPT !.n = @ + 1, !.texts = Append(@, text)]
                    [] OTHER -> [@ EXCEPT !.n = @ + 1]]
    /\ UNCHANGED coll /\ StoreIdle

Code(text) ==
    /\ status = "ok" /\ doc.open # <<>>
    /\ Top.kind = "link" /\ Top.n < MaxParts
    /\ state' = on_code(state, text)
    /\ doc' = [doc EXCEPT !.open[Len(doc.open)].n = @ + 1]
    /\ UNCHANGED <<coll, status>> /\ StoreIdle

\* End of a heading, a paragraph or an item: the catch-all arm, nothing
\* happens.
EndOther ==
    /\ status = "ok" /\ doc.open # <<>>
    /\ Top.kind \in {"heading", "paragraph", "item"}
    /\ doc' = [doc EXCEPT !.open =
                  IF Top.kind \in {"heading", "paragraph"} THEN Pop(@)
                  ELSE [Pop(@) EXCEPT ![Len(@) - 1].sub = TRUE]]
    /\ UNCHANGED <<coll, status, state>> /\ StoreIdle

EndList ==
    /\ status = "ok" /\ doc.open # <<>> /\ Top.kind = "list" /\ Top.sub
    /\ state' = end_list(state)
    /\ doc' = [doc EXCEPT !.open =
                  IF Len(@) = 1 THEN <<>>
                  ELSE [Pop(@) EXCEPT ![Len(@) - 1].sub = TRUE]]
    /\ UNCHANGED <<coll, status>> /\ StoreIdle

EndLink ==
    /\ status = "ok" /\ doc.open # <<>> /\ Top.kind = "link"
    /\ LET r == save_entity(state, coll)
           list == IF Len(doc.open) > 2 THEN doc.open[Len(doc.open) - 2]
                   ELSE Frame("document", None)
       IN /\ status' = r.status
          /\ state' = r.state
          /\ coll' = r.coll
          /\ doc' = [doc EXCEPT
                       !.open = [Pop(@) EXCEPT ![Len(@) - 1].link = r.id],
                       !.nested = IF r.id # None /\ list.link # None
                                  THEN @ \cup {<<Unwrap(list.link), Unwrap(r.id)>>}
                                  ELSE @]
    /\ StoreIdle

MdInit ==
    /\ state = ParserState_new
    /\ doc = [open |-> <<>>, nested |-> {}, links |-> 0]

StoreInit ==
    /\ coll = Collection_new
    /\ status = "ok"
    /\ hist = <<>>
    /\ ops = 0
    /\ seen = [u \in Urls |-> {}]

Init == StoreInit /\ MdInit

Next ==
    \/ \E e \in ObsStore : Insert(e)
    \/ \E e \in ObsStore : Upsert(e)
    \/ \E from, to \in Ids(coll) : AddEdge(from, to)
    \/ \E from, to \in Ids(coll) : AddEdges(from, to)
    \/ \E mapping \in Mappings : UpdateLabels(mapping)
    \/ \E sc \in Envelopes(coll) : Reconstruct(sc)

Spec == Init /\ [][Next]_vars

\* The store as the two parsers fill it: by upsert alone.
NextMerge == \E e \in ObsMerge : Upsert(e)

SpecMerge == Init /\ [][NextMerge]_vars

\* Start of a list in a document whose lists are nested up to MaxFlat deep.
StartFlatList == Depth(doc.open) < MaxFlat /\ StartList

\* Collection::from_markdown: the events of one document, in order, with
\* every kind of heading and link, over lists nested up to MaxFlat deep; the
\* sections of these documents carry one and the same date.
MdTexts == {"December 5, 2023", "Foo"} \cup LabelTexts \cup NameTexts \cup {"plain"}

NextMd ==
    \/ \E level \in HeadingLevels : StartHeading(level)
    \/ StartFlatList
    \/ StartItem
    \/ StartParagraph
    \/ \E link_type \in LinkTypes, dest_url \in Dests : StartLink(link_type, dest_url)
    \/ \E text \in MdTexts : Text(text)
    \/ EndOther
    \/ EndList
    \/ EndLink

SpecMd == Init /\ [][NextMd]_vars

\* The same reader over deeper lists (up to MaxDepth): documents with date
\* headings, paragraphs, plain items and inline links named by text or code.
NextNest ==
    \/ StartHeading(1)
    \/ StartList
    \/ StartItem
    \/ StartParagraph
    \/ \E dest_url \in Dests : StartLink("Inline", dest_url)
    \/ \E text \in DateTexts \cup NameTexts \cup {"plain"} : Text(text)
    \/ \E text \in NameTexts : Code(text)
    \/ EndOther
    \/ EndList
    \/ EndLink

SpecNest == Init /\ [][NextNest]_vars

\* The same reader over the documents that are one dated section of flat
\* lists: a depth-1 date heading first, then deeper headings and un-nested
\* lists of named inline links with distinct URLs.
FlatTexts == {"December 5, 2023", "December 6, 2023"} \cup LabelTexts \cup NameTexts \cup {"plain"}
StartDateHeading == state.current_tag = None /\ StartHeading(1)
StartLabelHeading(level) == state.date # None /\ StartHeading(level)
StartDatedList == state.date # None /\ doc.open = <<>> /\ StartList
StartNewLink(dest_url) ==
    /\ Url_parse(dest_url) # None
    /\ ~contains(coll, Unwrap(Url_parse(dest_url)))
    /\ TopKind = "item"
    /\ StartLink("Inline", dest_url)
EndNamedLink == EndLink /\ Top.n >= 1

NextFlat ==
    \/ StartDateHeading
    \/ \E level \in HeadingLevels \ {1} : StartLabelHeading(level)
    \/ StartDatedList
    \/ StartItem
    \/ \E dest_url \in Dests : StartNewLink(dest_url)
    \/ \E text \in FlatTexts : Text(text)
    \/ EndOther
    \/ EndList
    \/ EndNamedLink

SpecFlat == Init /\ [][NextFlat]_vars

(***************************************************************************)
(* Properties of the store                                                 *)
(***************************************************************************)
Last == hist[Len(hist)]

Twice(name) == Len(hist) = 2 /\ hist[1].op = name /\ hist[2].op = name

\* The last two operations were upsert(e1); upsert(e2) with url(e1) = url(e2).
SameUrlUpserts == Twice("upsert") /\ hist[1].e[1].url = hist[2].e[1].url

\* ... and the URL was not in the store before them.
FreshUrlUpserts == SameUrlUpserts /\ ~contains(hist[1].pre, hist[1].e[1].url)

MinOf(S) == CHOOSE x \in S : \A y \in S : x <= y
MaxOf(S) == CHOOSE x \in S : \A y \in S : y <= x
IsSorted(s) == \A i \in 1..(Len(s) - 1) : s[i] <= s[i + 1]

C2_CreatedMinUpdatedComplete ==
    \A i \in Ids(coll) :
        LET ent == entity(coll, i)
            T == seen[ent.url]
        IN /\ ent.created_at = MinOf(T)
           /\ IsSorted(ent.updated_at)
           /\ (T \ {ent.created_at}) \subseteq Range(ent.updated_at)

\* C3: for a URL the store does not hold, upsert(e1); upsert(e2) and
\* upsert(e2); upsert(e1) give the same names, labels and flags.
C3_MergeOrderIndependent ==
    FreshUrlUpserts =>
        LET e1 == hist[1].e[1]
            e2 == hist[2].e[1]
            swapped == upsert(upsert(hist[1].pre, e2).coll, e1)
            A == entity(coll, hist[2].ret[1])
            B == entity(swapped.coll, swapped.id)
        IN /\ A.names = B.names
           /\ A.labels = B.labels
           /\ A.shared = B.shared
           /\ A.to_read = B.to_read
           /\ A.is_feed = B.is_feed

\* C3's case: the two observations differ in names, labels and known flags.
C3_Witness ==
    /\ FreshUrlUpserts
    /\ hist[1].e[1].names # hist[2].e[1].names
    /\ hist[1].e[1].shared = Some(TRUE)
    /\ hist[2].e[1].shared = Some(FALSE)
    /\ hist[1].e[1].to_read # hist[2].e[1].to_read

\* The last two operations were upsert(e); upsert(e) of one observation e.
SameObservationTwice == Twice("upsert") /\ hist[1].e = hist[2].e

\* C4 (as claimed): a second upsert of the identical observation leaves the
\* stored entity unchanged in every field.
C4_SecondUpsertChangesNothing ==
    SameObservationTwice =>
        entity(coll, hist[2].ret[1]) = entity(hist[2].pre, hist[2].ret[1])

\* C4 (amended): a second upsert of the identical observation e leaves url,
\* created_at, names, labels, flags, extended and last_visited_at unchanged and
\* adds exactly one entry, e's created_at, to updated_at, which stays sorted.
C4_SecondUpsertOnlyAddsItsTime ==
    SameObservationTwice =>
        LET e == hist[2].e[1]
            A == entity(hist[2].pre, hist[2].ret[1])
            B == entity(coll, hist[2].ret[1])
        IN /\ [B EXCEPT !.updated_at = <<>>] = [A EXCEPT !.updated_at = <<>>]
           /\ Len(B.updated_at) = Len(A.updated_at) + 1
           /\ \A t \in Times :
                  Count(B.updated_at, t) =
                      Count(A.updated_at, t) + (IF t = e.created_at THEN 1 ELSE 0)
           /\ IsSorted(B.updated_at)

\* C4's case: the observation is merged twice into an entity that is older
\* than it.
C4_Witness ==
    /\ SameObservationTwice
    /\ contains(hist[1].pre, hist[1].e[1].url)
    /\ entity(hist[1].pre, hist[1].ret[1]).created_at < hist[1].e[1].created_at

\* C5: two observations of one new URL, both with an empty updated_at: the
\* stored created_at is the smaller creation time and updated_at holds exactly
\* the other one.
C5_TwoObservationsMinAndOther ==
    (/\ FreshUrlUpserts
     /\ hist[1].e[1].updated_at = <<>>
     /\ hist[2].e[1].updated_at = <<>>) =>
        LET c1 == hist[1].e[1].created_at
            c2 == hist[2].e[1].created_at
            ent == entity(coll, hist[2].ret[1])
        IN /\ ent.created_at = MinOf({c1, c2})
           /\ ent.updated_at = <<MaxOf({c1, c2})>>

\* C5's case: the later observation carries the earlier date.
C5_Witness ==
    /\ FreshUrlUpserts
    /\ hist[1].e[1].updated_at = <<>>
    /\ hist[2].e[1].updated_at = <<>>
    /\ hist[2].e[1].created_at < hist[1].e[1].created_at

\* C6 (as claimed): the URL index maps the URL of every id back to that id.
C6_UrlIndexBijection ==
    \A i \in Ids(coll) : id(coll, entity(coll, i).url) = Some(i)

\* C7: the id of a newly inserted entity is the length before the insertion,
\* the returned id denotes the entity's URL, no operation changes the URL an
\* existing id denotes, and the length never decreases.  (The operations are
\* the mutating ones; reading an envelope back builds another store.)
C7_IdsStableAndDense ==
    (hist # <<>> /\ Last.op # "reconstruct") =>
        LET pre == Last.pre
        IN /\ len(coll) >= len(pre)
           /\ \A i \in Ids(pre) : entity(coll, i).url = entity(pre, i).url
           /\ Last.op \in {"insert", "upsert"} =>
                  LET r == Last.ret[1]
                      e == Last.e[1]
                      new == Last.op = "insert" \/ ~contains(pre, e.url)
                  IN /\ r \in Ids(coll)
                     /\ entity(coll, r).url = e.url
                     /\ new => r = len(pre) /\ len(coll) = len(pre) + 1
                     /\ ~new => r \in Ids(pre) /\ len(coll) = len(pre)

\* C7's case: an upsert of a new URL into a non-empty store, then another
\* mutating operation.
C7_Witness ==
    /\ Len(hist) = 2
    /\ hist[1].op = "upsert"
    /\ hist[1].ret = <<1>>
    /\ len(hist[1].pre) = 1
    /\ hist[2].op \in {"insert", "update_labels", "add_edges"}

\* C8: the store has as many adjacency lists as nodes, so the assertion in
\* len() and is_empty() cannot fail.
C8_NodesEdgesSameLength == Len(coll.nodes) = Len(coll.edges)

\* C8's case: a store of two entities read back from its envelope.
C8_Witness ==
    /\ hist # <<>>
    /\ Last.op = "reconstruct"
    /\ status = "ok"
    /\ len(coll) = 2

\* C9: after add_edges(a, b), edges(a) holds b exactly once and edges(b) holds
\* a exactly once; a second add_edges(a, b) changes nothing.
C9_AddEdgesIdempotent ==
    (hist # <<>> /\ Last.op = "add_edges") =>
        LET a == Last.ids[1]
            b == Last.ids[2]
        IN /\ Count(edges(coll, a), b) = 1
           /\ Count(edges(coll, b), a) = 1
           /\ (Twice("add_edges") /\ hist[1].ids = hist[2].ids) => coll = Last.pre

\* C9's case: add_edges(a, b) twice in a row on two different entities.
C9_Witness ==
    /\ Twice("add_edges")
    /\ hist[1].ids = hist[2].ids
    /\ hist[2].ids[1] # hist[2].ids[2]

\* C10: every link that closes in an item of a sub-list nested under a list
\* item whose own link produced entity P has an edge to P and P has an edge to
\* it, also for the items that follow an item whose deeper sub-list has closed.
C10_NestedLinkLinkedToParent ==
    status = "ok" =>
        \A pr \in doc.nested :
            /\ pr[2] \in Range(edges(coll, pr[1]))
            /\ pr[1] \in Range(edges(coll, pr[2]))

(***************************************************************************)
(* Properties of the Markdown reader                                       *)
(***************************************************************************)
\* The heading of level k that is open ends in this step.
HeadingEnds(k) ==
    /\ status = "ok" /\ TopKind = "heading"
    /\ Top.level = k
    /\ doc'.open = Pop(doc.open)

\* C11: when a heading of depth k >= 2 that has text ends, the label stack is
\* the stack the heading started with, truncated to k-2 entries, plus exactly
\* one label, the heading's text, on top: it has at most k-1 entries, and a
\* sibling heading at the same depth has replaced the previous label.
C11_HeadingPushesOneLabel ==
    [][\A k \in HeadingLevels \ {1} :
          HeadingEnds(k) /\ Top.texts # <<>> =>
              /\ state.labels = Append(truncate(Top.before.labels, k - 2), join(Top.texts))
              /\ Len(state.labels) <= k - 1]_vars

\* A depth-1 heading starts in this step.
H1Starts ==
    /\ status = "ok" /\ doc.open = <<>>
    /\ doc'.open # <<>>
    /\ doc'.open[Len(doc'.open)].kind = "heading"
    /\ doc'.open[Len(doc'.open)].level = 1

\* C12: when a depth-1 heading starts, the label stack, the parent stack,
\* the candidate parent, the section date, the buffered URL and the buffered
\* name are all empty afterwards: the reader is in the state it has after the
\* first heading of a document, so nothing of an earlier section can reach a
\* bookmark of the new one through the reader's state.
C12_H1ResetsAllState ==
    [][H1Starts =>
          /\ state'.labels = <<>> /\ state'.parents = <<>>
          /\ state'.maybe_parent = None /\ state'.date = None
          /\ state'.url = None
          /\ state'.name = None /\ state'.name_parts = <<>>
          /\ state' = [ParserState_new EXCEPT !.current_tag = Some("Heading")]]_vars

\* C12's case: a depth-1 heading has just started after a section that had a
\* date and a bookmark, and left a label and a candidate parent behind.
C12_Witness ==
    /\ status = "ok" /\ TopKind = "heading"
    /\ Top.level = 1 /\ Top.n = 0
    /\ Top.before.labels # <<>> /\ Top.before.maybe_parent # None
    /\ len(coll) > 0

\* C13: a depth-1 heading without a parseable date fails the parse whatever
\* follows: when a depth-1 heading ends and the parse has not failed (so that
\* a document ending here is read successfully), the section has a date.
C13_H1WithoutDateFails ==
    [][HeadingEnds(1) => state.date # None]_vars

\* The link that is open ends in this step.
LinkEnds ==
    /\ status = "ok" /\ TopKind = "link"
    /\ Len(doc'.open) = Len(doc.open) - 1

\* C14 as stated: a link that closes while no section date is active fails
\* the parse with MissingDate.
C14_UndatedLinkIsMissingDate ==
    [][LinkEnds /\ state.date = None => status' = "err:MissingDate"]_vars

\* C14 amended: a link that closes while no section date is active fails the
\* parse, with MissingDate when a URL was captured for it and with MissingUrl
\* when none was (the URL is looked at first), and nothing is stored.
C14_UndatedLinkFails ==
    [][LinkEnds /\ state.date = None =>
          /\ status' = IF state.url = None THEN "err:MissingUrl"
                       ELSE "err:MissingDate"
          /\ coll' = coll]_vars

\* C14's case: the parse has failed with MissingDate in a section after the
\* first one (a depth-1 heading that set no date), bookmarks already stored.
C14_Witness == status = "err:MissingDate" /\ len(coll) > 0

\* C15: a link that ends without a captured URL fails the parse with
\* MissingUrl; the store gets an entity only in a step that ends a link with
\* a captured URL; and a text event directly inside a list item or paragraph
\* (plain text) stores nothing and raises no error.
C15_MissingUrlAndNoEntityFromText ==
    [][/\ LinkEnds /\ state.url = None => status' = "err:MissingUrl"
       /\ len(coll') > len(coll) => LinkEnds /\ state.url # None
       /\ (status = "ok" /\ TopKind \in {"item", "paragraph"}
              /\ doc'.open = doc.open)
            => status' = "ok" /\ coll' = coll]_vars

\* C15's case: the parse has failed with MissingUrl, after plain items and
\* stored bookmarks.
C15_Witness == status = "err:MissingUrl" /\ len(coll) > 0

\* The list that is open ends in this step.
ListEnds ==
    /\ status = "ok" /\ TopKind = "list"
    /\ Len(doc'.open) = Len(doc.open) - 1

\* C16: the end of a list pops the parent-stack entry its own start pushed,
\* so that the parent stack is again what it was when the list started, and
\* clears the candidate parent.
C16_ListEndUndoesListStart ==
    [][ListEnds => /\ state'.parents = Top.parents
                   /\ state'.maybe_parent = None]_vars

\* C17: in a document that is one depth-1 date heading followed by flat
\* lists of named links with distinct URLs, every link that ends adds one
\* entity, with created_at the section date, labels the label stack at that
\* moment and the link's name; entities already stored stay as they are; and
\* every adjacency list is empty.
C17_FlatListOneEntityPerLink ==
    [][/\ LinkEnds =>
            /\ status' = "ok"
            /\ len(coll') = len(coll) + 1
            /\ LET e == entity(coll', len(coll))
               IN /\ e.created_at = Unwrap(state.date)
                  /\ e.labels = Range(state.labels)
                  /\ e.names = {join(state.name_parts)}
                  /\ e.updated_at = <<>>
       /\ \A i \in Ids(coll) : entity(coll', i) = entity(coll, i)
       /\ \A i \in Ids(coll') : edges(coll', i) = <<>>]_vars

\* C17's case: the section is read, with two bookmarks that carry different
\* labels.
C17_Witness ==
    /\ status = "ok" /\ doc.open = <<>>
    /\ len(coll) = 2
    /\ entity(coll, 0).labels # entity(coll, 1).labels
    /\ entity(coll, 1).labels # {}

(***************************************************************************)
(* html.rs: the reader of Netscape bookmark files                          *)
(***************************************************************************)
MaxNest == 3
MaxItems == 3
MaxElements == 5

\* Folder headers: a plain name, a name with surrounding blanks, a blank one.
FolderTexts == {"F", " G ", " "}
DetailTexts == {"d1", " "}
LinkTexts == {"n1"}
HtmlAttrs == {[href |-> "https://foo.com/"], [href |-> "https://bar.com/"]}
Foo == [href |-> "https://foo.com/"]

\* str::trim on the texts and attribute values that occur.
trim(s) ==
    CASE s = " " -> ""
      [] s = " G " -> "G"
      [] s = " 1 " -> "1"
      [] OTHER -> s

\* HashMap::get
Get(attrs, key) == IF key \in DOMAIN attrs THEN Some(attrs[key]) ELSE None

\* Time::parse on a trimmed attribute value: seconds since the epoch.
Time_parse(s) ==
    CASE s = "1" -> Some(1)
      [] s = "2" -> Some(2)
      [] s = "3" -> Some(3)
      [] OTHER -> None

\* parse_timestamp_attr_opt: absent or blank is no time; a malformed value
\* makes the unwrap panic.
parse_timestamp_attr_opt(attrs, key) ==
    IF Get(attrs, key) = None THEN [result |-> "ok", time |-> None]
    ELSE LET trimmed == trim(Unwrap(Get(attrs, key)))
         IN IF trimmed = "" THEN [result |-> "ok", time |-> None]
            ELSE IF Time_parse(trimmed) = None
                 THEN [result |-> "panic", time |-> None]
                 ELSE [result |-> "ok", time |-> Time_parse(trimmed)]

\* parse_timestamp_attr: Time::default, the epoch, when there is no time.
parse_timestamp_attr(attrs, key) ==
    LET r == parse_timestamp_attr_opt(attrs, key)
    IN [result |-> r.result,
        time |-> IF r.time = None THEN 0 ELSE Unwrap(r.time)]

\* str::split(',') with each piece trimmed, on the tag strings that occur.
split_tags(tag_string) ==
    CASE tag_string = "" -> <<>>
      [] tag_string = "a, b" -> <<"a", "b">>
      [] tag_string = "a,toread" -> <<"a", "toread">>
      [] OTHER -> <<tag_string>>

\* str::contains("toread") on the tag strings that occur.
contains_toread(tag_string) ==
    tag_string \in {"toread", "a,toread", "toreadlater"}

\* A plausible slip: any private attribute makes the bookmark private.
shared_of_AnyPrivate(attrs) == Get(attrs, "private") = None

\* let shared = !matches!(attrs.get(ATTR_PRIVATE), Some(val) if val == "1")
shared_of(attrs) == ~(Get(attrs, "private") = Some("1"))

\* let to_read = attrs.get(ATTR_TOREAD).is_some_and(..) || tag_string.contains(..)
to_read_of(attrs, tag_string) ==
    Get(attrs, "toread") = Some("1") \/ contains_toread(tag_string)

\* let is_feed = attrs.get(ATTR_FEED).is_some_and(|val| val == "true")
is_feed_of(attrs) == Get(attrs, "feed") = Some("true")

\* The first part of add_pending: the entity of one bookmark, or the error.
pending_entity(folder_stack, attrs, description, extended) ==
    LET href == Get(attrs, "href")
        url == IF href = None THEN None ELSE Url_parse(Unwrap(href))
        created_at == parse_timestamp_attr(attrs, "add_date")
        last_modified == parse_timestamp_attr_opt(attrs, "last_modified")
        last_visited_at == parse_timestamp_attr_opt(attrs, "last_visit")
        tag_string == IF Get(attrs, "tags") = None THEN ""
                      ELSE Unwrap(Get(attrs, "tags"))
        tags == split_tags(tag_string)
        labels == (Range(folder_stack) \cup Range(tags)) \ {"toread"}
        updated_at == IF last_modified.time = None THEN <<>>
                      ELSE <<Unwrap(last_modified.time)>>
        new == [Entity_new(Unwrap(url), created_at.time, description, labels)
                   EXCEPT !.extended = IF extended = None THEN <<>>
                                       ELSE <<Unwrap(extended)>>,
                          !.shared = Some(shared_of(attrs)),
                          !.to_read = Some(to_read_of(attrs, tag_string)),
                          !.last_visited_at = last_visited_at.time,
                          !.is_feed = Some(is_feed_of(attrs)),
                          !.updated_at = updated_at]
    IN IF href = None THEN [result |-> "HtmlAttribute", entity |-> None]
       ELSE IF url = None THEN [result |-> "ParseUrl", entity |-> None]
       ELSE IF created_at.result = "panic" THEN [result |-> "panic", entity |-> None]
       ELSE IF last_modified.result = "panic" THEN [result |-> "panic", entity |-> None]
       ELSE IF last_visited_at.result = "panic" THEN [result |-> "panic", entity |-> None]
       ELSE [result |-> "ok", entity |-> Some(new)]

\* A plausible slip: a bookmark without href is skipped, not an error.
upsert_built_SkipNoHref(c, r) ==
    IF r.result = "HtmlAttribute" THEN [coll |-> c, result |-> "ok"]
    ELSE IF r.result # "ok" THEN [coll |-> c, result |-> r.result]
    ELSE [coll |-> upsert(c, Unwrap(r.entity)).coll, result |-> "ok"]

\* The last part of add_pending: collection.upsert(entity); Ok(())
upsert_built(c, r) ==
    IF r.result # "ok" THEN [coll |-> c, result |-> r.result]
    ELSE [coll |-> upsert(c, Unwrap(r.entity)).coll, result |-> "ok"]

\* add_pending: the entity of one bookmark, upserted.
add_pending(c, folder_stack, attrs, description, extended) ==
    upsert_built(c, pending_entity(folder_stack, attrs, description, extended))

\* An element of the parsed tree.  text is the text of all its descendants;
\* path (the names of the named folders whose lists enclose it) and depth
\* (the number of enclosing lists) are kept for the properties only.
Node(tag, attrs, text, children, path, depth) ==
    [tag |-> tag, attrs |-> attrs, text |-> text, children |-> children,
     path |-> path, depth |-> depth]

NoAttrs == <<>>

\* maybe_element_text
maybe_element_text(element) ==
    LET trimmed == trim(element.text)
    IN IF trimmed = "" THEN None ELSE Some(trimmed)

RECURSIVE Descendants(_), Walk(_)
\* The proper descendants of an element, in document order.
Descendants(element) == Walk(element.children)

Walk(s) ==
    IF s = <<>> THEN <<>>
    ELSE <<Head(s)>> \o Descendants(Head(s)) \o Walk(Tail(s))

\* ElementRef::select(selector).next(): the first descendant with the tag.
select(element, tag) ==
    LET d == Descendants(element)
        hits == {i \in 1..Len(d) : d[i].tag = tag}
    IN IF hits = {} THEN None
       ELSE Some(d[CHOOSE i \in hits : \A j \in hits : i <= j])

RECURSIVE Reverse(_)
Reverse(s) == IF s = <<>> THEN <<>> ELSE Append(Reverse(Tail(s)), Head(s))

Element(element) == [item |-> "Element", element |-> element]
PopGroup == [item |-> "PopGroup"]

RECURSIVE Elements(_)
Elements(children) ==
    IF children = <<>> THEN <<>>
    ELSE <<Element(Head(children))>> \o Elements(Tail(children))

push_children_Forward(stack, element) == stack \o Elements(element.children)

\* for child in element.children().rev() { stack.push(Element(child)) }
push_children(stack, element) == stack \o Reverse(Elements(element.children))

\* pending_bookmark.take(), with the outcome r of add_pending.
taken(st, r) ==
    [state |-> [st EXCEPT !.pending_bookmark = None],
     coll |-> r.coll, result |-> r.result, n |-> 1]

\* if let Some(pending) = pending_bookmark.take() { add_pending(...)? }
\* n counts the calls of add_pending.
finalize_pending(st, c, extended) ==
    IF st.pending_bookmark = None
    THEN [state |-> st, coll |-> c, result |-> "ok", n |-> 0]
    ELSE taken(st, add_pending(c, st.folder_stack,
                               Unwrap(st.pending_bookmark)[1],
                               Unwrap(st.pending_bookmark)[2], extended))

\* The catch-all arm: only the children of the element are pushed.
on_other(st, element) ==
    [st EXCEPT !.stack = push_children(@, element)]

\* The rest of an arm once the pending bookmark is finalized with outcome
\* f: an error returns at once, otherwise the arm goes on to state st.
and_then(f, st) == IF f.result # "ok" THEN f ELSE [f EXCEPT !.state = st]

\* A plausible slip: the detail's text is stored but the slot is not emptied.
on_dd_KeepPending(st, c, element) ==
    [finalize_pending(st, c, maybe_element_text(element))
        EXCEPT !.state = on_other(st, element)]

\* folder_stack.push(name) when the heading has text.
push_folder(st, name) ==
    IF name # None THEN [st EXCEPT !.folder_stack = Append(@, Unwrap(name))]
    ELSE st

\* The "dt" arm after the finalization: a heading makes a folder, else a
\* hyperlink is buffered.
dt_branch(st, h3, a) ==
    IF h3 # None THEN push_folder(st, maybe_element_text(Unwrap(h3)))
    ELSE IF a # None
    THEN [st EXCEPT !.pending_bookmark =
             Some(<<Unwrap(a).attrs, maybe_element_text(Unwrap(a))>>)]
    ELSE st

dt_after(f, element) ==
    and_then(f, on_other(dt_branch(f.state, select(element, "h3"),
                                   select(element, "a")), element))

\* The "dt" arm, then the children of the element.
on_dt(st, c, element) == dt_after(finalize_pending(st, c, None), element)

dd_after(f, element) == and_then(f, on_other(f.state, element))

\* The "dd" arm, then the children of the element.
on_dd(st, c, element) ==
    dd_after(finalize_pending(st, c, maybe_element_text(element)), element)

\* The "dl" arm, then the children of the element.
on_dl_MarkerFirst(st, element) ==
    [st EXCEPT !.stack = Append(push_children(@, element), PopGroup)]

on_dl(st, element) ==
    [st EXCEPT !.stack = push_children(Append(@, PopGroup), element)]

pop_after(f) ==
    and_then(f, [f.state EXCEPT !.folder_stack = SubSeq(@, 1, Len(@) - 1)])

\* The PopGroup arm; Vec::pop on an empty stack does nothing.
on_pop_group(st, c) == pop_after(finalize_pending(st, c, None))

\* The elements a list, or the body, may hold at a depth: bookmark terms,
\* folder terms with their list, folder headers without a list, details,
\* and lists without a header.
BookmarksWith(attrs_set, path, depth) ==
    {Node("dt", NoAttrs, t, <<Node("a", attrs, t, <<>>, path, depth)>>, path, depth) :
        attrs \in attrs_set, t \in LinkTexts}

Bookmarks(path, depth) == BookmarksWith(HtmlAttrs, path, depth)

List(path, depth) == Node("dl", NoAttrs, "", <<>>, path, depth)

Inside(path, t) == IF trim(t) = "" THEN path ELSE Append(path, trim(t))

Folders(path, depth) ==
    {Node("dt", NoAttrs, t,
          <<Node("h3", NoAttrs, t, <<>>, path, depth),
            List(Inside(path, t), depth + 1)>>, path, depth) : t \in FolderTexts}

Headers(path, depth) ==
    {Node("dt", NoAttrs, t, <<Node("h3", NoAttrs, t, <<>>, path, depth)>>, path, depth) :
        t \in {"F"}}

Details(path, depth) ==
    {Node("dd", NoAttrs, t, <<>>, path, depth) : t \in DetailTexts}

Items(path, depth) ==
    Bookmarks(path, depth) \cup Headers(path, depth) \cup Details(path, depth)
    \cup (IF depth < MaxNest
          THEN Folders(path, depth) \cup {List(path, depth + 1)} ELSE {})

\* The children of an element: those of a list or of the body are read off
\* the document when the traversal reaches it.
Children(element, items) ==
    IF element.tag \in {"dl", "body"}
    THEN UNION {[1..n -> items] :
                   n \in {k \in 0..MaxItems : doc.made + k <= MaxElements}}
    ELSE {element.children}

ChildrenOf(element) == Children(element, Items(element.path, element.depth))

HtmlTop == state.stack[Len(state.stack)]
HtmlTag == IF state.stack = <<>> THEN "none"
           ELSE IF HtmlTop.item = "PopGroup" THEN "PopGroup"
           ELSE HtmlTop.element.tag
Popped == [state EXCEPT !.stack = SubSeq(@, 1, Len(@) - 1)]

\* The URL of the pending bookmark, and the record of the folder paths each
\* URL has been finalized under (kept for the properties only).
PendingUrl == Unwrap(Url_parse(Unwrap(state.pending_bookmark)[1].href))
Via(r) ==
    IF r.n = 1 /\ r.result = "ok"
       /\ "href" \in DOMAIN Unwrap(state.pending_bookmark)[1]
    THEN [doc.via EXCEPT ![PendingUrl] = @ \cup {doc.path}]
    ELSE doc.via

\* The kinds of stack item that have finalized a bookmark so far.
By(r) == IF r.n = 1 /\ r.result = "ok" THEN doc.by \cup {HtmlTag} ELSE doc.by

IsBookmark(element) == select(element, "h3") = None /\ select(element, "a") # None

PopDt ==
    /\ status = "ok" /\ HtmlTag = "dt"
    /\ LET element == HtmlTop.element
           r == on_dt(Popped, coll, element)
       IN /\ state' = r.state
          /\ coll' = r.coll
          /\ status' = r.result
          /\ doc' = [doc EXCEPT !.finalized = @ + r.n,
                                !.via = Via(r), !.by = By(r),
                                !.buffered = IF IsBookmark(element) /\ r.result = "ok"
                                             THEN @ + 1 ELSE @,
                                !.path = IF IsBookmark(element) THEN element.path ELSE @]
    /\ StoreIdle

PopDd ==
    /\ status = "ok" /\ HtmlTag = "dd"
    /\ LET r == on_dd(Popped, coll, HtmlTop.element)
       IN /\ state' = r.state
          /\ coll' = r.coll
          /\ status' = r.result
          /\ doc' = [doc EXCEPT !.finalized = @ + r.n, !.via = Via(r), !.by = By(r)]
    /\ StoreIdle

PopDlOf(children) ==
    /\ state' = on_dl(Popped, [HtmlTop.element EXCEPT !.children = children])
    /\ doc' = [doc EXCEPT !.made = @ + Len(children)]
    /\ UNCHANGED <<coll, status>> /\ StoreIdle

PopDl ==
    /\ status = "ok" /\ HtmlTag = "dl"
    /\ \E children \in ChildrenOf(HtmlTop.element) : PopDlOf(children)

PopOtherOf(children) ==
    /\ state' = on_other(Popped, [HtmlTop.element EXCEPT !.children = children])
    /\ doc' = [doc EXCEPT !.made = @ + Len(children)]
    /\ UNCHANGED <<coll, status>> /\ StoreIdle

PopOther ==
    /\ status = "ok" /\ HtmlTag \in {"body", "h3", "a"}
    /\ \E children \in ChildrenOf(HtmlTop.element) : PopOtherOf(children)

PopPopGroup ==
    /\ status = "ok" /\ HtmlTag = "PopGroup"
    /\ LET r == on_pop_group(Popped, coll)
       IN /\ state' = r.state
          /\ coll' = r.coll
          /\ status' = r.result
          /\ doc' = [doc EXCEPT !.finalized = @ + r.n, !.via = Via(r), !.by = By(r)]
    /\ StoreIdle

\* The loop is over: assert!(pending_bookmark.is_none()); Ok(collection)
Return ==
    /\ status = "ok" /\ HtmlTag = "none"
    /\ status' = IF state.pending_bookmark = None THEN "returned" ELSE "panic"
    /\ UNCHANGED <<coll, state, doc>> /\ StoreIdle

Body == Node("body", NoAttrs, "", <<>>, <<>>, 0)

HtmlInit ==
    /\ state = [stack |-> <<Element(Body)>>, folder_stack |-> <<>>,
                pending_bookmark |-> None]
    /\ doc = [path |-> <<>>, made |-> 0, buffered |-> 0, finalized |-> 0,
              via |-> [u \in Urls |-> {}], by |-> {}]

NextHtml ==
    \/ PopDt
    \/ PopDd
    \/ PopDl
    \/ PopOther
    \/ PopPopGroup
    \/ Return

InitHtml == StoreInit /\ HtmlInit

SpecHtml == InitHtml /\ [][NextHtml]_vars

\* Documents of bookmark terms, details, lists and folders named F.
PlainItems(path, depth) ==
    Bookmarks(path, depth) \cup Details(path, depth)
    \cup (IF depth < MaxNest
          THEN {f \in Folders(path, depth) : f.text = "F"} \cup {List(path, depth + 1)}
          ELSE {})

PlainChildrenOf(element) ==
    Children(element, PlainItems(element.path, element.depth))

PopPlainDl ==
    /\ status = "ok" /\ HtmlTag = "dl"
    /\ \E children \in PlainChildrenOf(HtmlTop.element) : PopDlOf(children)

PopPlainOther ==
    /\ status = "ok" /\ HtmlTag \in {"body", "h3", "a"}
    /\ \E children \in PlainChildrenOf(HtmlTop.element) : PopOtherOf(children)

NextTerms ==
    \/ PopDt
    \/ PopDd
    \/ PopPlainDl
    \/ PopPlainOther
    \/ PopPopGroup
    \/ Return

SpecTerms == InitHtml /\ [][NextTerms]_vars

\* Documents whose bookmarks may lack href, or carry an href or a timestamp
\* that does not parse.
BadAttrs ==
    {[tags |-> "a, b"], [href |-> "not a url"],
     [href |-> "https://foo.com/", add_date |-> "x"],
     [href |-> "https://foo.com/", last_modified |-> "x"],
     [href |-> "https://foo.com/", last_visit |-> "x"]}

TimedAttrs ==
    {[href |-> "https://bar.com/", add_date |-> " 1 ", last_modified |-> "2",
      last_visit |-> " "]}

FailItems(path, depth) ==
    BookmarksWith({Foo} \cup TimedAttrs \cup BadAttrs, path, depth)
    \cup {Node("dd", NoAttrs, "d1", <<>>, path, depth)}
    \cup (IF depth < MaxNest THEN {List(path, depth + 1)} ELSE {})

FailChildrenOf(element) ==
    Children(element, FailItems(element.path, element.depth))

PopFailDl ==
    /\ status = "ok" /\ HtmlTag = "dl"
    /\ \E children \in FailChildrenOf(HtmlTop.element) : PopDlOf(children)

PopFailOther ==
    /\ status = "ok" /\ HtmlTag \in {"body", "h3", "a"}
    /\ \E children \in FailChildrenOf(HtmlTop.element) : PopOtherOf(children)

NextFail ==
    \/ PopDt
    \/ PopDd
    \/ PopFailDl
    \/ PopFailOther
    \/ PopPopGroup
    \/ Return

SpecFail == InitHtml /\ [][NextFail]_vars


(***************************************************************************)
(* Properties of the HTML reader                                           *)
(***************************************************************************)

\* A step that finalizes the pending bookmark.
Finalizes ==
    /\ status = "ok" /\ status' = "ok"
    /\ state.pending_bookmark # None
    /\ HtmlTag \in {"dt", "dd", "PopGroup"}

LabelsOf(c, url) ==
    IF contains(c, url) THEN entity(c, Unwrap(id(c, url))).labels ELSE {}

\* C18: the folder-label stack is popped for a list only after the whole
\* subtree of the list has been processed, so a bookmark, when it is
\* finalized, is given the name of every folder whose list encloses it and
\* the name of no other folder.
C18_LabelsAreEnclosingFolders ==
    [][Finalizes =>
          /\ Range(doc.path) \subseteq LabelsOf(coll', PendingUrl)
          /\ LabelsOf(coll', PendingUrl)
                 \subseteq LabelsOf(coll, PendingUrl) \cup Range(doc.path)]_vars


\* C19: a bookmark reached through two folder paths is one entity of the
\* store, and its labels contain the folder names of every path it was
\* finalized under.
C19_TwoPathsOneEntityBothLabels ==
    status \in {"ok", "returned"} =>
        /\ len(coll) = Cardinality({u \in Urls : doc.via[u] # {}})
        /\ \A u \in Urls : Cardinality(doc.via[u]) >= 2 =>
              \A p \in doc.via[u] :
                  contains(coll, u) /\ Range(p) \subseteq LabelsOf(coll, u)


\* The long-form text a detail element supplies.
TextOf(element) ==
    IF maybe_element_text(element) = None THEN <<>>
    ELSE <<Unwrap(maybe_element_text(element))>>

\* C20: a pending bookmark is finalized by the first term, detail or pop
\* marker that follows it, and by nothing else: that step upserts it and
\* takes it out of the slot, so it is finalized once; a new entity gets the
\* detail's text as long-form text when a detail finalized it and none when
\* a term or a pop marker did; a step with an empty slot, a detail included,
\* leaves the store as it is.
C20_PendingFinalizedOnce ==
    [][/\ Finalizes =>
            /\ doc'.finalized = doc.finalized + 1
            /\ HtmlTag # "dt" => state'.pending_bookmark = None
            /\ HtmlTag = "dt" =>
                   \/ state'.pending_bookmark = None
                   \/ doc'.buffered = doc.buffered + 1
            /\ contains(coll', PendingUrl)
            /\ len(coll') = IF contains(coll, PendingUrl) THEN len(coll)
                            ELSE len(coll) + 1
            /\ ~contains(coll, PendingUrl) =>
                   entity(coll', len(coll)).extended =
                       IF HtmlTag = "dd" THEN TextOf(HtmlTop.element) ELSE <<>>
       /\ ~Finalizes => coll' = coll /\ doc'.finalized = doc.finalized
       /\ doc'.buffered = doc'.finalized
                            + (IF state'.pending_bookmark = None THEN 0 ELSE 1)]_vars

\* C20's case: a document is read to its end in which a term, a detail and
\* a pop marker have each finalized a bookmark, one of them with text.
C20_Witness ==
    /\ status = "returned"
    /\ doc.by = {"dt", "dd", "PopGroup"}
    /\ doc.finalized = 3
    /\ \E i \in Ids(coll) : entity(coll, i).extended = <<"d1">>


(***************************************************************************)
(* html.rs: add_pending on its own, over attribute maps                    *)
(***************************************************************************)
MaxAdds == 2

\* HashMap::insert
Put(attrs, key, value) ==
    [k \in DOMAIN attrs \cup {key} |-> IF k = key THEN value ELSE attrs[k]]

TagStrings == {"", "a, b", "a,toread", "toread", "toreadlater"}
FolderStacks == {<<>>, <<"F">>, <<"toread", "F">>}

TagAttrs ==
    LET tagged == {Foo} \cup {Put(Foo, "tags", t) : t \in TagStrings}
    IN tagged \cup {Put(a, "toread", v) : a \in tagged, v \in {"1", "0"}}

FlagAttrs ==
    {Put(Foo, "private", v) : v \in {"1", "0", " 1 "}}
    \cup {Put(Foo, "feed", v) : v \in {"true", "false"}}

RichAttrs == HtmlAttrs \cup TagAttrs \cup FlagAttrs

\* One call of add_pending; the arguments and the entity it builds are kept
\* for the properties.
AddPending(folder_stack, attrs, description, extended) ==
    /\ status = "ok" /\ doc.calls < MaxAdds
    /\ LET r == add_pending(coll, folder_stack, attrs, description, extended)
       IN /\ coll' = r.coll
          /\ status' = r.result
    /\ doc' = [calls |-> doc.calls + 1,
               folder_stack |-> folder_stack,
               attrs |-> attrs,
               built |-> pending_entity(folder_stack, attrs, description, extended).entity]
    /\ UNCHANGED state /\ StoreIdle

InitAttrs ==
    /\ StoreInit
    /\ state = [stack |-> <<>>, folder_stack |-> <<>>, pending_bookmark |-> None]
    /\ doc = [calls |-> 0, folder_stack |-> <<>>, attrs |-> Foo, built |-> None]

NextAttrs ==
    \E folder_stack \in FolderStacks, attrs \in RichAttrs :
        AddPending(folder_stack, attrs, Some("n1"), None)

SpecAttrs == InitAttrs /\ [][NextAttrs]_vars

\* The tags of the bookmark of the last call.
TagsOf(attrs) ==
    IF Get(attrs, "tags") = None THEN {} ELSE Range(split_tags(attrs.tags))

\* C21: the tag equal to "toread" is removed from the labels and sets
\* to_read; every other tag and every folder name is a label; without a
\* toread attribute, to_read is set only by a tag equal to "toread".
C21_ToreadTagOnly ==
    doc.built # None =>
        LET e == Unwrap(doc.built)
            tags == TagsOf(doc.attrs)
        IN /\ e.labels = Range(doc.folder_stack) \cup (tags \ {"toread"})
           /\ "toread" \in tags => e.to_read = Some(TRUE)
           /\ Get(doc.attrs, "toread") = None /\ "toread" \notin tags
                  => e.to_read # Some(TRUE)


\* C22: the entity built for a bookmark is shared when the private attribute
\* is absent or differs from "1", and not shared exactly when it is "1"; a
\* new entity is stored with that flag.
C22_SharedUnlessPrivate ==
    doc.built # None =>
        LET e == Unwrap(doc.built)
            private == Get(doc.attrs, "private")
        IN /\ private = None => e.shared = Some(TRUE)
           /\ private # None /\ Unwrap(private) # "1" => e.shared = Some(TRUE)
           /\ private = Some("1") => e.shared = Some(FALSE)
           /\ doc.calls = 1 => entity(coll, 0).shared = e.shared

\* C22's case: a bookmark with private "1" has been stored as not shared.
C22_Witness ==
    /\ doc.calls = 1 /\ status = "ok"
    /\ Get(doc.attrs, "private") = Some("1")
    /\ entity(coll, 0).shared = Some(FALSE)


\* A step of the reader that finalizes the pending bookmark, whatever the
\* outcome.
TriesToFinalize ==
    /\ status = "ok"
    /\ state.pending_bookmark # None
    /\ HtmlTag \in {"dt", "dd", "PopGroup"}

PendingAttrs == Unwrap(state.pending_bookmark)[1]

\* C23: finalizing a bookmark whose hyperlink has no href ends the parse
\* with the missing-attribute error: the store gets no entity for it, and no
\* step follows an error, so no store is returned.
C23_NoHrefFailsParse ==
    [][/\ status = "ok"
       /\ TriesToFinalize /\ Get(PendingAttrs, "href") = None =>
              status' = "HtmlAttribute" /\ coll' = coll]_vars

\* C23's case: a bookmark without href has ended a parse that had already
\* stored a bookmark.
C23_Witness ==
    /\ status = "HtmlAttribute"
    /\ len(coll) = 1
    /\ state.stack # <<>>


\* An attribute that is present, not blank, and not a timestamp.
Malformed(attrs, key) ==
    /\ Get(attrs, key) # None
    /\ trim(attrs[key]) # ""
    /\ Time_parse(trim(attrs[key])) = None

\* C24: finalizing a bookmark whose add-date, last-modified or last-visit
\* attribute is not blank and not a timestamp ends the parse with an error
\* value: it neither goes on nor crashes.
C24_BadTimestampIsAnError ==
    [][/\ TriesToFinalize
       /\ Get(PendingAttrs, "href") # None
       /\ Url_parse(PendingAttrs.href) # None
       /\ \E key \in {"add_date", "last_modified", "last_visit"} :
              Malformed(PendingAttrs, key)
       => status' \notin {"ok", "returned", "panic"}]_vars


\* The error values the two parsers return.
Errors ==
    {"err:MissingUrl", "err:MissingDate", "err:ParseDate", "err:ParseUrl",
     "HtmlAttribute", "ParseUrl"}

\* C25: a parse goes on only while no error has occurred; a step of the
\* loop that meets the first data error ends the parse with an error value
\* (it does not skip the entity and go on, and it does not crash), adds
\* nothing to the store, and no step follows it.
C25_FirstErrorEndsParse ==
    [][/\ status = "ok"
       /\ state.stack # <<>> => status' \in {"ok"} \cup Errors
       /\ status' \in Errors => coll' = coll]_vars

\* The image of a label set under a mapping: a key goes to its value, any
\* other label stays.
Image(labels, mapping) ==
    {IF l \in DOMAIN mapping THEN mapping[l] ELSE l : l \in labels}

\* C26: update_labels replaces every entity's label set by its image under
\* the mapping and touches nothing else; labels mapped to one value
\* collapse, and the empty mapping changes nothing.
C26_LabelsAreMappedImage ==
    [][\A mapping \in Mappings :
          UpdateLabels(mapping) =>
              /\ Len(coll'.nodes) = Len(coll.nodes)
              /\ \A i \in 1..Len(coll.nodes) :
                    coll'.nodes[i] =
                        [coll.nodes[i] EXCEPT
                            !.labels = Image(coll.nodes[i].labels, mapping)]
              /\ coll'.edges = coll.edges
              /\ mapping = <<>> => coll' = coll]_vars

\* C26's case: an entity labelled a and b comes out of update_labels with
\* one label x, or with b and x when a is renamed to b and b to x.
C26_Witness ==
    /\ hist # <<>>
    /\ hist[Len(hist)].op = "update_labels"
    /\ \E i \in 1..Len(coll.nodes) :
          /\ hist[Len(hist)].pre.nodes[i].labels = {"a", "b"}
          /\ coll.nodes[i].labels \in {{"x"}, {"b", "x"}}

\* The values of a tri-state flag: unset, false, true.
Flags == {None, Some(FALSE), Some(TRUE)}

\* The merge of two flags as a table: true if either is true, else false
\* if either is false, else unset.
FlagTable(x, y) ==
    IF Some(TRUE) \in {x, y} THEN Some(TRUE)
    ELSE IF Some(FALSE) \in {x, y} THEN Some(FALSE)
    ELSE None

\* The last operation was an upsert of an entity whose URL was stored.
Merged ==
    /\ hist # <<>>
    /\ hist[Len(hist)].op = "upsert"
    /\ id(hist[Len(hist)].pre, hist[Len(hist)].e[1].url) # None

Incoming == hist[Len(hist)].e[1]
Stored == entity(hist[Len(hist)].pre, Unwrap(id(hist[Len(hist)].pre, Incoming.url)))
Result == entity(coll, Unwrap(id(coll, Incoming.url)))

\* C27: Flag::merge agrees with the table on all nine combinations and is
\* commutative, associative and idempotent; an upsert of a stored URL
\* leaves each of the three flags at the merge of the stored and the
\* incoming value.
C27_FlagMergeTable ==
    /\ \A x, y \in Flags :
          /\ Flag_merge(x, y) = FlagTable(x, y)
          /\ Flag_merge(x, y) = Flag_merge(y, x)
          /\ Flag_merge(x, x) = x
          /\ \A z \in Flags :
                Flag_merge(Flag_merge(x, y), z) = Flag_merge(x, Flag_merge(y, z))
    /\ Merged =>
          /\ Result.shared = FlagTable(Stored.shared, Incoming.shared)
          /\ Result.to_read = FlagTable(Stored.to_read, Incoming.to_read)
          /\ Result.is_feed = FlagTable(Stored.is_feed, Incoming.is_feed)

\* C27's case: a stored false flag met by true becomes true, and a stored
\* true flag met by false or by unset stays true, in one upsert.
C27_Witness ==
    /\ Merged
    /\ Stored.shared = Some(FALSE) /\ Incoming.shared = Some(TRUE)
    /\ Stored.to_read = Some(TRUE) /\ Incoming.to_read = Some(FALSE)
    /\ Stored.is_feed = Some(FALSE) /\ Incoming.is_feed = None
    /\ Result.shared = Some(TRUE)
    /\ Result.to_read = Some(TRUE)
    /\ Result.is_feed = Some(FALSE)

\* A time is not before another; an unset time is before every time.
NotBefore(x, y) == y = None \/ (x # None /\ Unwrap(x) >= Unwrap(y))

\* C28: an upsert of a stored URL leaves last_visited_at at the later of
\* the stored and the incoming value, at the only one known, or unset when
\* neither is known; so the result is never before the stored value.
C28_LastVisitGoesForward ==
    Merged =>
        /\ Result.last_visited_at \in
               {Stored.last_visited_at, Incoming.last_visited_at}
        /\ NotBefore(Result.last_visited_at, Stored.last_visited_at)
        /\ NotBefore(Result.last_visited_at, Incoming.last_visited_at)

\* C28's case: an entity last visited at 3 is merged with one last visited
\* at 2.
C28_Witness ==
    /\ Merged
    /\ Stored.last_visited_at = Some(3)
    /\ Incoming.last_visited_at = Some(2)
    /\ Result.last_visited_at = Some(3)

(***************************************************************************)
(* html.rs: from_html over one list of many bookmarks                      *)
(***************************************************************************)

\* The most bookmarks the one list holds.
MaxSiblings == 5

\* body holds one list, the list holds one to MaxSiblings terms, each with
\* one link.
WideChildrenOf(element) ==
    CASE element.tag = "body" -> {<<List(<<>>, 1)>>}
      [] element.tag = "dl" ->
            UNION {[1..n -> Bookmarks(<<>>, 1)] : n \in 1..MaxSiblings}
      [] OTHER -> {element.children}

PopWideDl ==
    /\ status = "ok" /\ HtmlTag = "dl"
    /\ \E children \in WideChildrenOf(HtmlTop.element) : PopDlOf(children)

PopWideOther ==
    /\ status = "ok" /\ HtmlTag \in {"body", "a"}
    /\ \E children \in WideChildrenOf(HtmlTop.element) : PopOtherOf(children)

NextWide ==
    \/ PopDt
    \/ PopWideDl
    \/ PopWideOther
    \/ PopPopGroup
    \/ Return

SpecWide == InitHtml /\ [][NextWide]_vars

\* The nesting of every one of these documents: the link of a term of the
\* list of the body of the document.
NestingDepth == Len(<<"html", "body", "dl", "dt", "a">>)

\* C29: at every step of the parse of a document that nests five elements
\* deep, the work stack and the folder stack hold at most five entries,
\* however many bookmarks the list has.
C29_StacksWithinNestingDepth ==
    /\ Len(state.stack) <= NestingDepth
    /\ Len(state.folder_stack) <= NestingDepth

\* The orders the node array of a store of n nodes can be written in.
Orders(n) == {p \in Arrangements(n) : Len(p) = n}

\* C30: reading back the serialized form of the store, with the node array
\* in any order, succeeds and gives the store itself: the same entities at
\* the same ids, the same adjacency lists, the same URL index.
C30_EnvelopeRoundTrip ==
    LET sc == Serialized(coll)
    IN \A p \in Orders(sc.length) :
          try_from([sc EXCEPT !.value = [i \in DOMAIN p |-> sc.value[p[i]]]])
              = [status |-> "ok", coll |-> coll]

\* C30's case: a store of at least two linked entities has been read back
\* from one of its envelopes and is the store that was written.
C30_Witness ==
    /\ hist # <<>>
    /\ Last.op = "reconstruct"
    /\ status = "ok"
    /\ len(coll) >= 2
    /\ \E i \in Ids(coll) : edges(coll, i) # <<>>
    /\ coll = Last.pre

\* Version order: major, then minor, then patch.
Before(v, w) ==
    \/ v[1] < w[1]
    \/ v[1] = w[1] /\ v[2] < w[2]
    \/ v[1] = w[1] /\ v[2] = w[2] /\ v[3] < w[3]

\* The versions the requirement ^0.1.0 admits: from 0.1.0 up to, not
\* including, 0.2.0.
Caret010(v) == ~Before(v, <<0, 1, 0>>) /\ Before(v, <<0, 2, 0>>)

\* C31: of the envelopes of the store, under every version and order of the
\* node array, one is read back with success only if its version is
\* admitted by ^0.1.0, and one of any other version gives the
\* incompatible-version error and no store.
C31_OnlyCompatibleVersionRead ==
    \A sc \in Envelopes(coll) :
        LET r == try_from(sc)
        IN /\ r.status = "ok" => Caret010(sc.version)
           /\ ~Caret010(sc.version) =>
                 r = [status |-> "err:IncompatibleVersion", coll |-> Collection_new]

\* C31's case: reading back an envelope of a non-empty store has failed on
\* its version.
C31_Witness ==
    /\ hist # <<>>
    /\ Last.op = "reconstruct"
    /\ len(Last.pre) >= 1
    /\ status = "err:IncompatibleVersion"

\* A sequence starts with another.
IsPrefix(s, t) == Len(s) <= Len(t) /\ SubSeq(t, 1, Len(s)) = s

\* C32: the end of a list removes no entry that was on the parent stack
\* when that list started (the entries pushed by the enclosing lists), also
\* when its own start pushed nothing.
C32_ListEndKeepsEnclosingParents ==
    [][ListEnds => IsPrefix(Top.parents, state'.parents)]_vars

\* C33: every pop marker pops the name its own list's header pushed and no
\* other, so whenever a term, a detail or a list is about to be processed
\* the folder stack holds exactly the names of the folders that enclose it,
\* also after a list without header, a header with blank text and a header
\* that no list follows.
C33_FolderStackIsEnclosingPath ==
    (status = "ok" /\ HtmlTag \in {"dt", "dd", "dl"}) =>
        state.folder_stack = HtmlTop.element.path

\* C34: when the work stack is empty the pending slot is empty and every
\* bookmark that was buffered has been upserted, so the assertion that ends
\* the loop holds.
C34_NothingPendingAtEnd ==
    (status = "ok" /\ state.stack = <<>>) =>
        /\ state.pending_bookmark = None
        /\ doc.finalized = doc.buffered

\* A list with one more target at its end, unless it holds the target.
WithTarget(list, to) == IF Count(list, to) > 0 THEN list ELSE Append(list, to)

\* C35: no adjacency list holds a target twice; add_edge(from, to) leaves
\* the list of from as it was when it holds to and else puts to at its end,
\* and add_edges(from, to) does so for to in the list of from and then for
\* from in the list of to; the targets already there stay in their places
\* and every other adjacency list and every entity is untouched.
C35_EdgesInsertionOrdered ==
    /\ \A i \in Ids(coll) : \A t \in Ids(coll) : Count(edges(coll, i), t) <= 1
    /\ (hist # <<>> /\ Last.op \in {"add_edge", "add_edges"}) =>
          LET from == Last.ids[1]
              to == Last.ids[2]
              first == WithTarget(edges(Last.pre, from), to)
          IN /\ coll.nodes = Last.pre.nodes
             /\ coll.urls = Last.pre.urls
             /\ \A i \in Ids(coll) \ {from, to} : edges(coll, i) = edges(Last.pre, i)
             /\ Last.op = "add_edge" =>
                   /\ edges(coll, from) = first
                   /\ to # from => edges(coll, to) = edges(Last.pre, to)
             /\ Last.op = "add_edges" =>
                   /\ to # from =>
                         /\ edges(coll, from) = first
                         /\ edges(coll, to) = WithTarget(edges(Last.pre, to), from)
                   /\ to = from => edges(coll, from) = first

\* C35's case: a second target has been added to an adjacency list and
\* stands after the first.
C35_Witness ==
    /\ hist # <<>>
    /\ Last.op = "add_edge"
    /\ Len(edges(Last.pre, Last.ids[1])) = 1
    /\ Count(edges(Last.pre, Last.ids[1]), Last.ids[2]) = 0
    /\ edges(coll, Last.ids[1]) = Append(edges(Last.pre, Last.ids[1]), Last.ids[2])

(***************************************************************************)
(* html.rs: from_html over whole document trees                            *)
(***************************************************************************)

\* A hyperlink term, and a folder term holding its header and its list.
Term(attrs, path) ==
    Node("dt", NoAttrs, "n1", <<Node("a", attrs, "n1", <<>>, path, 0)>>, path, 0)

FolderOf(name, children) ==
    Node("dt", NoAttrs, name,
         <<Node("h3", NoAttrs, name, <<>>, <<>>, 0),
           Node("dl", NoAttrs, "", children, <<name>>, 1)>>, <<>>, 0)

DocumentOf(children) ==
    Node("body", NoAttrs, "", <<Node("dl", NoAttrs, "", children, <<>>, 0)>>, <<>>, 0)

\* Documents of one list: a bookmark, a folder of two bookmarks and a
\* bookmark after it; or a folder of one bookmark and a bookmark after it;
\* and documents of one bookmark outside every list.
Documents ==
    {DocumentOf(<<Term(a1, <<>>),
                  FolderOf("F", <<Term(a2, <<"F">>), Term(a3, <<"F">>)>>),
                  Term(a4, <<>>)>>) : a1, a2, a3, a4 \in HtmlAttrs}
    \cup {DocumentOf(<<FolderOf("F", <<Term(a1, <<"F">>)>>), Term(a2, <<>>)>>) :
              a1, a2 \in HtmlAttrs}
    \cup {Node("body", NoAttrs, "", <<Term(a1, <<>>)>>, <<>>, 0) : a1 \in HtmlAttrs}

\* The state before the loop, for one of the documents; the document is
\* kept for the properties.
TreeInit ==
    \E tree \in Documents :
        /\ state = [stack |-> <<Element(tree)>>, folder_stack |-> <<>>,
                    pending_bookmark |-> None]
        /\ doc = [path |-> <<>>, made |-> 0, buffered |-> 0, finalized |-> 0,
                  via |-> [u \in Urls |-> {}], by |-> {}, tree |-> tree]

InitTree == StoreInit /\ TreeInit

PopTreeDl ==
    /\ status = "ok" /\ HtmlTag = "dl"
    /\ PopDlOf(HtmlTop.element.children)

PopTreeOther ==
    /\ status = "ok" /\ HtmlTag \in {"body", "h3", "a"}
    /\ PopOtherOf(HtmlTop.element.children)

NextTree ==
    \/ PopDt
    \/ PopTreeDl
    \/ PopTreeOther
    \/ PopPopGroup
    \/ Return

SpecTree == InitTree /\ [][NextTree]_vars

\* The URLs of the hyperlink terms of a document, in document order.
TermUrls(tree) ==
    LET IsTerm(e) == e.tag = "dt" /\ IsBookmark(e)
        terms == SelectSeq(Descendants(tree), IsTerm)
    IN [i \in 1..Len(terms) |->
           Unwrap(Url_parse(Unwrap(select(terms[i], "a")).attrs.href))]

\* A sequence without the repetitions of its elements.
RECURSIVE FirstSeen(_)
FirstSeen(s) ==
    IF s = <<>> THEN <<>>
    ELSE LET front == FirstSeen(SubSeq(s, 1, Len(s) - 1))
         IN IF Count(front, s[Len(s)]) > 0 THEN front
            ELSE Append(front, s[Len(s)])

\* C36: the bookmarks are finalized in the order their hyperlink terms
\* stand in the document, so at every step the entities of the store, by
\* id, are the distinct URLs of the terms finalized so far in document
\* order, and at the end those of all the terms.
C36_IdsInDocumentOrder ==
    status \in {"ok", "returned"} =>
        /\ doc.finalized <= Len(TermUrls(doc.tree))
        /\ [i \in 1..len(coll) |-> coll.nodes[i].url]
               = FirstSeen(SubSeq(TermUrls(doc.tree), 1, doc.finalized))
        /\ status = "returned" => doc.finalized = Len(TermUrls(doc.tree))

\* C36's case: a document whose first bookmark is bar and whose folder
\* holds foo has been read to its end; bar has id 0 and foo id 1.
C36_Witness ==
    /\ status = "returned"
    /\ TermUrls(doc.tree)[1] = "u2"
    /\ TermUrls(doc.tree)[2] = "u1"
    /\ Len(TermUrls(doc.tree)) = 4
    /\ id(coll, "u2") = Some(0)
    /\ id(coll, "u1") = Some(1)

\* C37: in the store the markdown reader builds, b is a target of a
\* exactly when a is a target of b, and every target is the id of an
\* entity of the store.
C37_EdgesSymmetricAndValid ==
    \A a \in Ids(coll) :
        /\ Range(edges(coll, a)) \subseteq Ids(coll)
        /\ \A b \in Ids(coll) :
              Count(edges(coll, a), b) > 0 <=> Count(edges(coll, b), a) > 0

\* C37's case: the reader has linked two different entities.
C37_Witness ==
    /\ status = "ok"
    /\ \E a, b \in Ids(coll) :
          a # b /\ Count(edges(coll, a), b) > 0 /\ Count(edges(coll, b), a) > 0

\* C38: an upsert of a stored URL returns the id the URL has and leaves
\* the store length, the URL index, every adjacency list, every other
\* entity, and the url and long-form text of the merged entity as they
\* were.
C38_UpsertFrame ==
    Merged =>
        LET i == Unwrap(id(Last.pre, Incoming.url))
        IN /\ Last.ret = <<i>>
           /\ len(coll) = len(Last.pre)
           /\ coll.urls = Last.pre.urls
           /\ coll.edges = Last.pre.edges
           /\ \A j \in Ids(coll) \ {i} : entity(coll, j) = entity(Last.pre, j)
           /\ Result.url = Stored.url
           /\ Result.extended = Stored.extended

\* C38's case: an entity with an edge and no long-form text is merged with
\* an observation that has long-form text, in a store of two entities.
C38_Witness ==
    /\ Merged
    /\ len(coll) = 2
    /\ edges(coll, Unwrap(id(coll, Incoming.url))) # <<>>
    /\ Stored.extended = <<>>
    /\ Incoming.extended = <<"d1">>

\* C39: in the store the markdown reader builds no entity is a target of
\* its own adjacency list.
C39_NoSelfEdges ==
    \A i \in Ids(coll) : Count(edges(coll, i), i) = 0

\* The same reader with its loop scheduled: an iteration that can run does.
SpecTreeFair == InitTree /\ [][NextTree]_vars /\ WF_vars(NextTree)

\* What a traversal of an element pops, in order: the element, then what
\* the traversals of its children pop, then, for a list, its pop marker.
RECURSIVE Pops(_), PopsAll(_)
Pops(element) ==
    <<Element(element)>> \o PopsAll(element.children)
        \o (IF element.tag = "dl" THEN <<PopGroup>> ELSE <<>>)

PopsAll(s) == IF s = <<>> THEN <<>> ELSE Pops(Head(s)) \o PopsAll(Tail(s))

\* What is still to be popped, given the items of the work stack from the
\* top down.
RECURSIVE Expand(_)
Expand(items) ==
    IF items = <<>> THEN <<>>
    ELSE (IF Head(items).item = "Element" THEN Pops(Head(items).element)
          ELSE <<PopGroup>>) \o Expand(Tail(items))

ToPop == Expand(Reverse(state.stack))

IsSuffix(s, t) == Len(s) <= Len(t) /\ SubSeq(t, Len(t) - Len(s) + 1, Len(t)) = s

\* C40: the loop ends for every document, with the work stack empty (the
\* assertion that follows the loop is another matter); each iteration pops
\* the next item of the traversal of the document, in which every element stands
\* once and the one marker of a list stands after the elements of the
\* list's subtree, so that when the loop ends all of them have been popped,
\* each once.
C40_TraversalTerminates ==
    /\ [](IsSuffix(ToPop, Pops(doc.tree)))
    /\ [][state' # state =>
             /\ ToPop # <<>>
             /\ ToPop[1] = HtmlTop
             /\ ToPop' = Tail(ToPop)]_vars
    /\ <>(status \in {"returned", "panic"} /\ state.stack = <<>>)

\* C40's case: the document with a folder has been read to its end; the
\* lists, the terms, their links and the header, and two markers, were
\* popped.
C40_Witness ==
    /\ status = "returned"
    /\ ToPop = <<>>
    /\ Len(Pops(doc.tree)) = Len(Descendants(doc.tree)) + 1 + 2
    /\ Len(TermUrls(doc.tree)) = 4

====
